---------------------------- MODULE Spec2Model ----------------------------
(***************************************************************************)
(* A model of the OMRChecker API adapter: the configuration resolver       *)
(* (_prepare_config), the template validator (validate_template_json and   *)
(* the /omr/validate-template route), the template materializer            *)
(* (_create_template_from_dict), the item processor (process_omr_image),   *)
(* the batch orchestrator (process_omr_batch), the directory source        *)
(* (process_dir_for_api) and the /omr/process route.                       *)
(***************************************************************************)
EXTENDS Integers, Sequences, FiniteSets, TLC

VARIABLES
    CONFIG_DEFAULTS,   \* src.defaults.CONFIG_DEFAULTS: a module-level object
    cfgCall,           \* the latest call of _prepare_config and what it returned
    tplCall,           \* the latest call of _create_template_from_dict, likewise
    csv,               \* the latest call of create_csv_response and its table
    workers,           \* two requests served at once: where each stands
    sel,               \* the latest source selection of an upload and its outcome
    vreq,              \* the template of the latest validate-template request
    vresp,             \* the response to it
    tmpMarker,         \* the content of /tmp/omr_marker_temp.jpg ("none": absent)
    req,               \* the process request being served
    pc,                \* where its handler stands
    template_data,     \* the request's raw template (a dictionary the code mutates)
    results,           \* the results list of the running batch
    successful,        \* the running batch's success counter
    failed,            \* the running batch's failure counter
    decoded,           \* number of bytes_to_numpy calls on images in this request
    resp               \* the response of the request

vars == <<CONFIG_DEFAULTS, cfgCall, tplCall, csv, workers, sel, vreq, vresp, tmpMarker, req, pc,
          template_data, results, successful, failed, decoded, resp>>

(***************************************************************************)
(* Bounds of the model.                                                    *)
(***************************************************************************)
\* longest images list / file-names list of a request
MaxItems == 2
\* longest value of a list-valued config key the model lets a merge build
MaxListLen == 2

(***************************************************************************)
(* JSON values.  A value is tagged: "s" a scalar (numbers; Python's        *)
(* False/True are 0/1), "l" a list, "m" a mapping (dict or DotMap), "none" *)
(* Python's None.                                                          *)
(***************************************************************************)
S(n) == [t |-> "s", v |-> n]
L(s) == [t |-> "l", v |-> s]
M(f) == [t |-> "m", v |-> f]
None == [t |-> "none", v |-> 0]
EmptyMap == M([k \in {} |-> 0])

IsMap(x) == x.t = "m"
Has(x, k) == k \in DOMAIN x.v
\* dict item assignment  x[k] = val
Put(x, k, val) == M([j \in (DOMAIN x.v) \cup {k} |-> IF j = k THEN val ELSE x.v[j]])

\* Python truthiness, the test of `if config_data:`
Truthy(x) ==
    CASE x.t = "none" -> FALSE
      [] x.t = "m" -> DOMAIN x.v # {}
      [] x.t = "l" -> Len(x.v) > 0
      [] OTHER -> x.v # 0

(***************************************************************************)
(* deepmerge.always_merger.merge(base, nxt): mappings merge key by key,    *)
(* recursively; two lists are appended; everything else (a scalar, or two  *)
(* values of different types) is overridden by nxt.  The merge works in    *)
(* place: its result is also the new value of base.                        *)
(***************************************************************************)
RECURSIVE always_merger(_, _)
always_merger(base, nxt) ==
    IF base.t = "m" /\ nxt.t = "m"
    THEN M([k \in (DOMAIN base.v) \cup (DOMAIN nxt.v) |->
              IF k \notin DOMAIN nxt.v THEN base.v[k]
              ELSE IF k \notin DOMAIN base.v THEN nxt.v[k]
              ELSE always_merger(base.v[k], nxt.v[k])])
    ELSE IF base.t = "l" /\ nxt.t = "l" THEN L(base.v \o nxt.v)
    ELSE nxt

\* api.utils.get_default_config(): a fresh dictionary on every call
get_default_config ==
    M([dimensions |-> M([display_width |-> S(1240), display_height |-> S(1754),
                         processing_height |-> S(1754), processing_width |-> S(1240)]),
       threshold_params |-> M([MIN_JUMP |-> S(10)]),
       outputs |-> M([filter_out_multimarked_files |-> S(0), show_image_level |-> S(0)])])

\* src.defaults.CONFIG_DEFAULTS as the module is imported: the built-in defaults
BuiltinDefaults ==
    M([dimensions |-> M([display_width |-> S(1640), display_height |-> S(2480),
                         processing_height |-> S(820), processing_width |-> S(666)]),
       threshold_params |-> M([MIN_JUMP |-> S(25), MIN_GAP |-> S(30)]),
       outputs |-> M([filter_out_multimarked_files |-> S(0), show_image_level |-> S(0),
                      save_image_level |-> S(0)]),
       alignment_params |-> M([auto_align |-> S(0), max_steps |-> S(20)])])

Bool2Int(b) == IF b THEN 1 ELSE 0

(***************************************************************************)
(* _prepare_config(config_data, auto_align, disable_display), run with the *)
(* module-level CONFIG_DEFAULTS being `defaults`.  The result records      *)
(* whether the call raised, the object it returned and the value           *)
(* CONFIG_DEFAULTS has afterwards (the last merge works in place on it,    *)
(* and the object returned is CONFIG_DEFAULTS itself).                     *)
(***************************************************************************)
PrepareRaise(defaults) == [raised |-> TRUE, config |-> None, defaults |-> defaults]

\* lines 204-209: the API-mode override of the outputs section
OverrideOutputs(config, disable_display) ==
    IF ~disable_display THEN [raised |-> FALSE, config |-> config]
    ELSE IF ~IsMap(config) THEN [raised |-> TRUE, config |-> config]
    ELSE LET c1 == IF ~Has(config, "outputs") THEN Put(config, "outputs", EmptyMap)
                   ELSE config
         IN IF ~IsMap(c1.v["outputs"]) THEN [raised |-> TRUE, config |-> config]
            ELSE [raised |-> FALSE,
                  config |-> Put(c1, "outputs",
                                 Put(Put(c1.v["outputs"], "show_image_level", S(0)),
                                     "save_image_level", S(0)))]

\* lines 211-214: auto_align is set from the request
SetAutoAlign(config, auto_align) ==
    IF ~IsMap(config) THEN [raised |-> TRUE, config |-> config]
    ELSE LET c1 == IF ~Has(config, "alignment_params")
                   THEN Put(config, "alignment_params", EmptyMap)
                   ELSE config
         IN IF ~IsMap(c1.v["alignment_params"]) THEN [raised |-> TRUE, config |-> config]
            ELSE [raised |-> FALSE,
                  config |-> Put(c1, "alignment_params",
                                 Put(c1.v["alignment_params"], "auto_align",
                                     S(Bool2Int(auto_align))))]

\* the merge of line 202
MergeUserConfig(config, config_data) == always_merger(config, config_data)

\* the merge of line 221
MergeIntoDefaults(defaults, config_obj) == always_merger(defaults, config_obj)

_prepare_config(defaults, config_data, auto_align, disable_display) ==
    LET config0 == get_default_config
        config1 == IF Truthy(config_data) THEN MergeUserConfig(config0, config_data)
                   ELSE config0
        o == OverrideOutputs(config1, disable_display)
        a == SetAutoAlign(o.config, auto_align)
        \* DotMap(config, _dynamic=False) copies the structure, content unchanged
        config_obj == a.config
        final_config == MergeIntoDefaults(defaults, config_obj)
    IN  IF o.raised \/ a.raised THEN PrepareRaise(defaults)
        ELSE [raised |-> FALSE, config |-> final_config, defaults |-> final_config]

\* The caller's config_data after the call.  The merge of line 202 works on
\* the fresh dict of get_default_config and, for a key that dict lacks, puts
\* the caller's own value object into it (deepmerge: base[k] = nxt[k]).
\* get_default_config has `outputs` but no `alignment_params`, so line 214
\* writes auto_align into the caller's alignment_params dict when the call
\* gets that far.  DotMap copies, so the merge of line 221 writes nothing
\* into the caller's objects.
ConfigDataAfter(config_data, auto_align, disable_display) ==
    IF ~(Truthy(config_data) /\ IsMap(config_data)) THEN config_data
    ELSE LET config1 == MergeUserConfig(get_default_config, config_data)
             o == OverrideOutputs(config1, disable_display)
         IN  IF /\ ~o.raised
                /\ Has(config_data, "alignment_params")
                /\ ~Has(get_default_config, "alignment_params")
                /\ IsMap(config_data.v["alignment_params"])
             THEN Put(config_data, "alignment_params",
                      Put(config_data.v["alignment_params"], "auto_align",
                          S(Bool2Int(auto_align))))
             ELSE config_data

(***************************************************************************)
(* The configurations a caller supplies: None, mappings (empty, sparse,    *)
(* with a scalar where the defaults have an object, with a list-valued     *)
(* key) and values that are no mapping.                                    *)
(***************************************************************************)
MappingConfigs ==
    { EmptyMap,
      M([outputs |-> M([show_image_level |-> S(2)])]),
      M([threshold_params |-> M([MIN_JUMP |-> S(7)])]),
      M([alignment_params |-> M([auto_align |-> S(1)])]),
      M([dimensions |-> S(5)]),
      M([outputs |-> S(5)]),
      M([threshold_params |-> S(7)]),
      M([extra |-> L(<<1>>)]) }

NonMappingConfigs == { L(<<1>>), L(<<>>), S(5) }

UserConfigs == {None} \cup MappingConfigs \cup NonMappingConfigs

\* no list-valued key of the mapping x holds a list longer than n
ListsWithin(x, n) ==
    IsMap(x) => \A k \in DOMAIN x.v : x.v[k].t = "l" => Len(x.v[k].v) <= n

\* no template was built yet
NoTplCall == [made |-> FALSE, raised |-> FALSE, marker_data |-> "none",
              relative_dir |-> "none", tmp0 |-> "none", tmpMarker |-> "none", bound |-> <<>>]

NoCall == [called |-> FALSE, config_data |-> None, auto_align |-> FALSE,
           raised |-> FALSE, config |-> None, before |-> BuiltinDefaults]

(***************************************************************************)
(* Configuration resolution on its own: any sequence of _prepare_config    *)
(* calls (each item of an upload batch makes one, each directory request   *)
(* makes one), acting on the module-level CONFIG_DEFAULTS.                 *)
(***************************************************************************)
CallPrepareConfig ==
    \E cd \in UserConfigs, aa \in BOOLEAN :
        LET r == _prepare_config(CONFIG_DEFAULTS, cd, aa, TRUE)
        IN  /\ ListsWithin(r.defaults, MaxListLen)
            /\ CONFIG_DEFAULTS' = r.defaults
            /\ cfgCall' = [called |-> TRUE, config_data |-> cd, auto_align |-> aa,
                           raised |-> r.raised, config |-> r.config,
                           before |-> CONFIG_DEFAULTS]
            /\ UNCHANGED <<tplCall, csv, workers, sel, vreq, vresp, tmpMarker, req, pc, template_data,
                           results, successful, failed, decoded, resp>>

\* no upload had its sources selected
NoSel == [called |-> FALSE]

\* no CSV export has been made
NoCsv == [called |-> FALSE]

\* no two requests are being served at once
NoWorkers == <<>>

InitCommon ==
    /\ CONFIG_DEFAULTS = BuiltinDefaults
    /\ cfgCall = NoCall
    /\ tplCall = NoTplCall
    /\ csv = NoCsv
    /\ tmpMarker = "none"

InitCfg ==
    /\ InitCommon
    /\ workers = NoWorkers
    /\ sel = NoSel
    /\ vreq = 0 /\ vresp = 0
    /\ req = 0 /\ pc = "idle" /\ template_data = 0 /\ results = <<>>
    /\ successful = 0 /\ failed = 0 /\ decoded = 0 /\ resp = 0

NextCfg == CallPrepareConfig

SpecCfg == InitCfg /\ [][NextCfg]_vars

(***************************************************************************)
(* Claims about configuration resolution.                                  *)
(***************************************************************************)
\* every key of the built-in defaults, section by section
HasEveryDefaultKey(snapshot) ==
    /\ IsMap(snapshot)
    /\ \A k \in DOMAIN BuiltinDefaults.v :
          /\ Has(snapshot, k)
          /\ IsMap(snapshot.v[k])
          /\ \A j \in DOMAIN BuiltinDefaults.v[k].v : Has(snapshot.v[k], j)

\* C9: for every user config that is a mapping, _prepare_config returns a
\* snapshot in which every key of the built-in defaults is present.
C9_SnapshotHasEveryDefaultKey ==
    (cfgCall.called /\ IsMap(cfgCall.config_data))
        => (~cfgCall.raised /\ HasEveryDefaultKey(cfgCall.config))

\* C10: a scalar or array value given by the user's config fully replaces the
\* default value of that key (object-valued keys merging recursively); for an
\* array-valued key the resolved value equals the user's array exactly.
C10_ArrayReplacesDefault ==
    (cfgCall.called /\ ~cfgCall.raised /\ IsMap(cfgCall.config_data))
        => \A k \in DOMAIN cfgCall.config_data.v :
              cfgCall.config_data.v[k].t = "l"
                  => cfgCall.config.v[k] = cfgCall.config_data.v[k]

\* the value at section k, key j of x; None where there is none
Leaf(x, k, j) ==
    IF IsMap(x) /\ Has(x, k) /\ IsMap(x.v[k]) /\ Has(x.v[k], j) THEN x.v[k].v[j] ELSE None

\* the keys the service-mode overrides set (lines 208, 209 and 214)
ServiceKeys == { <<"outputs", "show_image_level">>, <<"outputs", "save_image_level">>,
                 <<"alignment_params", "auto_align">> }

\* C11: for every user config (a mapping) and every autoAlign flag the
\* resolved snapshot has outputs.show_image_level = 0 and
\* alignment_params.auto_align equal to the flag, whatever the user config
\* says for those keys, and for every other key the value the config supplies
\* is the value of the snapshot.
C11_ConfigPrecedence ==
    (cfgCall.called /\ IsMap(cfgCall.config_data)) =>
        /\ ~cfgCall.raised
        /\ Leaf(cfgCall.config, "outputs", "show_image_level") = S(0)
        /\ Leaf(cfgCall.config, "alignment_params", "auto_align")
              = S(Bool2Int(cfgCall.auto_align))
        /\ \A k \in DOMAIN cfgCall.config_data.v :
              IF IsMap(cfgCall.config_data.v[k])
              THEN \A j \in DOMAIN cfgCall.config_data.v[k].v :
                      <<k, j>> \notin ServiceKeys
                          => Leaf(cfgCall.config, k, j) = cfgCall.config_data.v[k].v[j]
              ELSE k \notin {"outputs", "alignment_params"}
                      => cfgCall.config.v[k] = cfgCall.config_data.v[k]

(***************************************************************************)
(* Templates.  A raw template records which of the keys the code tests are *)
(* present: pageDimensions, bubbleDimensions, fieldBlocks (fb: "missing",  *)
(* "map" with its blocks in dictionary order, or "list", a value that is   *)
(* no mapping), and preProcessors (a list of steps, each with a name and   *)
(* options.relativePath).                                                  *)
(***************************************************************************)
\* most field blocks of a template of a validate-template request
MaxBlocks == 1

BlockNames == <<"q1", "q2", "q3">>

Flags == [fieldType : BOOLEAN, bubbleValues : BOOLEAN, direction : BOOLEAN,
          origin : BOOLEAN, fieldLabels : BOOLEAN]

Block(i, f) == [name |-> BlockNames[i], fieldType |-> f.fieldType,
                bubbleValues |-> f.bubbleValues, direction |-> f.direction,
                origin |-> f.origin, fieldLabels |-> f.fieldLabels]

\* the block lists of n blocks named q1..qn
RECURSIVE BlockLists(_)
BlockLists(n) ==
    IF n = 0 THEN { <<>> }
    ELSE { Append(bs, Block(n, f)) : bs \in BlockLists(n - 1), f \in Flags }

NoPreProcessors == [has |-> FALSE, procs |-> <<>>]

ValTemplates ==
    { [pageDimensions |-> p, bubbleDimensions |-> b, fb |-> k, blocks |-> bs,
       preProcessors |-> NoPreProcessors] :
        p \in BOOLEAN, b \in BOOLEAN, k \in {"map"},
        bs \in UNION { BlockLists(n) : n \in 0..MaxBlocks } }
    \cup
    { [pageDimensions |-> p, bubbleDimensions |-> b, fb |-> k, blocks |-> <<>>,
       preProcessors |-> NoPreProcessors] :
        p \in BOOLEAN, b \in BOOLEAN, k \in {"missing", "list"} }

\* `'fieldBlocks' not in template_data or not template_data['fieldBlocks']`
MissingOrEmptyFieldBlocks(t) == t.fb = "missing" \/ (t.fb = "map" /\ t.blocks = <<>>)

HasType(b) == b.fieldType \/ (b.bubbleValues /\ b.direction)

(***************************************************************************)
(* src.utils.validations.validate_template_json, the core validator: it    *)
(* raises on a template that breaks a structural invariant (a missing      *)
(* pageDimensions or bubbleDimensions, missing or empty fieldBlocks, a     *)
(* block with neither fieldType nor bubbleValues+direction, a block        *)
(* without origin); a missing fieldLabels is not fatal.                    *)
(***************************************************************************)
CoreAccepts(t) ==
    /\ t.pageDimensions
    /\ t.bubbleDimensions
    /\ t.fb = "map"
    /\ t.blocks # <<>>
    /\ \A i \in 1..Len(t.blocks) : HasType(t.blocks[i]) /\ t.blocks[i].origin

Err(kind, block) == [kind |-> kind, block |-> block]

\* lines 108-119, the messages of blocks i..n in dictionary order
RECURSIVE BlockErrors(_, _)
BlockErrors(blocks, i) ==
    IF i > Len(blocks) THEN <<>>
    ELSE (IF ~HasType(blocks[i]) THEN <<Err("type", blocks[i].name)>> ELSE <<>>)
         \o (IF ~blocks[i].origin THEN <<Err("origin", blocks[i].name)>> ELSE <<>>)
         \o BlockErrors(blocks, i + 1)

RECURSIVE BlockWarnings(_, _)
BlockWarnings(blocks, i) ==
    IF i > Len(blocks) THEN <<>>
    ELSE (IF ~blocks[i].fieldLabels THEN <<Err("fieldLabels", blocks[i].name)>> ELSE <<>>)
         \o BlockWarnings(blocks, i + 1)

Ret(kind, valid, errors, warnings) ==
    [kind |-> kind, valid |-> valid, errors |-> errors, warnings |-> warnings]

\* what the function returns when the core validator raised (lines 92-128)
RejectedReturn(t, return_details) ==
    LET errors == <<Err("core", "")>>
                  \o (IF ~t.pageDimensions THEN <<Err("pageDimensions", "")>> ELSE <<>>)
                  \o (IF ~t.bubbleDimensions THEN <<Err("bubbleDimensions", "")>> ELSE <<>>)
                  \o (IF MissingOrEmptyFieldBlocks(t) THEN <<Err("fieldBlocks", "")>> ELSE <<>>)
                  \o BlockErrors(t.blocks, 1)
        warnings == BlockWarnings(t.blocks, 1)
    IN  IF t.fb = "list"
        THEN \* template_data['fieldBlocks'].items() raises inside the handler
             Ret("raised", FALSE, <<>>, <<>>)
        ELSE IF return_details
        THEN Ret("details", Len(errors) = 0, errors, warnings)
        ELSE Ret("bool", Len(errors) = 0, <<>>, <<>>)

\* what the function returns when the core validator accepted: after
\* `is_valid = True` (line 91) the try statement ends and so does the
\* function, which returns None
AcceptedReturn(t, return_details) == Ret("none", FALSE, <<>>, <<>>)

\* api.utils.validate_template_json(template_data, return_details)
validate_template_json(t, return_details) ==
    IF CoreAccepts(t) THEN AcceptedReturn(t, return_details)
    ELSE RejectedReturn(t, return_details)

(***************************************************************************)
(* The /omr/validate-template route.                                       *)
(***************************************************************************)
VResp(code, status, valid, errors, warnings, ret) ==
    [code |-> code, status |-> status, valid |-> valid, errors |-> errors,
     warnings |-> warnings, ret |-> ret]

validate_template_response(src, t) ==
    IF src = "none" THEN VResp(400, "error", FALSE, <<>>, <<>>, "not called")
    ELSE LET validation_result == validate_template_json(t, TRUE)
         IN  IF validation_result.kind = "details"
             THEN VResp(200, "success", validation_result.valid,
                        validation_result.errors, validation_result.warnings, "details")
             ELSE \* the call raised, or validation_result['valid'] raises on None
                  VResp(500, "error", FALSE, <<>>, <<>>, validation_result.kind)

NoVReq == [src |-> "none", template |-> CHOOSE t \in ValTemplates : CoreAccepts(t)]
NoVResp == VResp(0, "idle", FALSE, <<>>, <<>>, "not called")

\* a validate-template request with a JSON body or an uploaded file
ValidateTemplate ==
    \E src \in {"json", "file"}, t \in ValTemplates :
        /\ vreq' = [src |-> src, template |-> t]
        /\ vresp' = validate_template_response(src, t)
        /\ UNCHANGED <<CONFIG_DEFAULTS, cfgCall, tplCall, csv, workers, sel, tmpMarker, req, pc,
                       template_data,
                       results, successful, failed, decoded, resp>>

\* a validate-template request that carries no template
ValidateNothing ==
    /\ vreq' = NoVReq
    /\ vresp' = validate_template_response("none", NoVReq.template)
    /\ UNCHANGED <<CONFIG_DEFAULTS, cfgCall, tplCall, csv, workers, sel, tmpMarker, req, pc,
                       template_data,
                   results, successful, failed, decoded, resp>>

InitVal ==
    /\ InitCommon
    /\ workers = NoWorkers
    /\ sel = NoSel
    /\ vreq = NoVReq /\ vresp = NoVResp
    /\ req = 0 /\ pc = "idle" /\ template_data = 0 /\ results = <<>>
    /\ successful = 0 /\ failed = 0 /\ decoded = 0 /\ resp = 0

NextVal == ValidateTemplate \/ ValidateNothing

SpecVal == InitVal /\ [][NextVal]_vars

(***************************************************************************)
(* Claims about template validation.                                       *)
(***************************************************************************)
Answered == vresp.code # 0 /\ vreq.src # "none"

InSeq(x, seq) == \E i \in 1..Len(seq) : seq[i] = x

\* the only defect of t is that some block has no fieldLabels
OnlyFieldLabelsMissing(t) ==
    /\ CoreAccepts(t)
    /\ \E i \in 1..Len(t.blocks) : ~t.blocks[i].fieldLabels

\* C7: validateTemplate on a template with missing or empty fieldBlocks returns
\* valid=false with an error naming the missing fieldBlocks; on a template whose
\* only defect is a block without fieldLabels it returns valid=true, no errors
\* and a warning naming that block.
C7_FieldBlocksErrorAndFieldLabelsWarning ==
    Answered =>
        /\ MissingOrEmptyFieldBlocks(vreq.template)
              => /\ vresp.code = 200
                 /\ ~vresp.valid
                 /\ InSeq(Err("fieldBlocks", ""), vresp.errors)
        /\ OnlyFieldLabelsMissing(vreq.template)
              => /\ vresp.code = 200
                 /\ vresp.valid
                 /\ vresp.errors = <<>>
                 /\ \A i \in 1..Len(vreq.template.blocks) :
                       ~vreq.template.blocks[i].fieldLabels
                          => InSeq(Err("fieldLabels", vreq.template.blocks[i].name),
                                   vresp.warnings)

\* C8: for every template the core validator accepts, the validate-template
\* entry point answers 200 with valid=true and zero errors; and
\* validate_template_json(template, return_details=True) returns a result
\* record for every input.
C8_AcceptedTemplateAnswersValid ==
    Answered =>
        /\ CoreAccepts(vreq.template)
              => vresp.code = 200 /\ vresp.valid /\ vresp.errors = <<>>
        /\ vresp.ret = "details"

(***************************************************************************)
(* Templates of process requests: the steps of preProcessors carry a name, *)
(* whether they have options, and options.relativePath (loc "none": the    *)
(* key is absent; "rel": a relative path as written in the template;       *)
(* "dir": joined to the request's directory; "tmp": the transient file).   *)
(***************************************************************************)
Path(loc, name) == [loc |-> loc, name |-> name]
NoPath == Path("none", "")
TempMarkerPath == Path("tmp", "omr_marker_temp.jpg")

Step(name, options, relativePath) ==
    [name |-> name, options |-> options, relativePath |-> relativePath]

GoodBlock == [name |-> "q1", fieldType |-> TRUE, bubbleValues |-> FALSE,
              direction |-> FALSE, origin |-> TRUE, fieldLabels |-> TRUE]

Template(fb, blocks, has, procs) ==
    [pageDimensions |-> TRUE, bubbleDimensions |-> TRUE, fb |-> fb, blocks |-> blocks,
     preProcessors |-> [has |-> has, procs |-> procs]]

T_plain == Template("map", <<GoodBlock>>, TRUE, <<Step("GaussianBlur", TRUE, NoPath)>>)
T_marker == Template("map", <<GoodBlock>>, TRUE,
                     <<Step("CropOnMarkers", TRUE, Path("rel", "omr_marker.jpg"))>>)
T_marker2 == Template("map", <<GoodBlock>>, TRUE,
                      <<Step("GaussianBlur", TRUE, NoPath),
                        Step("CropOnMarkers", TRUE, Path("rel", "marker2.jpg"))>>)
T_noBlocks == Template("missing", <<>>, FALSE, <<>>)
T_listBlocks == Template("list", <<>>, FALSE, <<>>)

ProcTemplates == {T_plain, T_marker, T_marker2, T_noBlocks, T_listBlocks}

\* the steps of a template that need a marker
CropSteps(t) ==
    {i \in 1..Len(t.preProcessors.procs) : t.preProcessors.procs[i].name = "CropOnMarkers"}

NeedsMarker(t) == t.preProcessors.has /\ CropSteps(t) # {}

\* lines 252-261: every CropOnMarkers step with options is pointed at the
\* transient marker file
RewriteToTemp(td) ==
    LET procs == td.preProcessors.procs
    IN  [td EXCEPT !.preProcessors.procs =
            [i \in DOMAIN procs |->
                IF procs[i].name = "CropOnMarkers" /\ procs[i].options
                THEN Step(procs[i].name, procs[i].options, TempMarkerPath)
                ELSE procs[i]]]

\* lines 264-271: relative marker paths are joined to relative_dir
JoinRelativeDir(td) ==
    LET procs == td.preProcessors.procs
    IN  [td EXCEPT !.preProcessors.procs =
            [i \in DOMAIN procs |->
                IF /\ procs[i].name = "CropOnMarkers"
                   /\ procs[i].options
                   /\ procs[i].relativePath.loc # "none"
                THEN Step(procs[i].name, procs[i].options,
                          Path("dir", procs[i].relativePath.name))
                ELSE procs[i]]]

\* whether a marker can be read at path p: tmp is the content of the transient
\* file, dirMarkers the marker files of the request's directory
Readable(p, tmp, dirMarkers) ==
    CASE p.loc = "tmp" -> tmp # "none"
      [] p.loc = "dir" -> p.name \in dirMarkers
      [] OTHER -> FALSE

\* the marker content a readable path yields
ReadMarker(p, tmp) == IF p.loc = "tmp" THEN tmp ELSE p.name

(***************************************************************************)
(* Template.from_dict(template_data, config, relative_dir), the template   *)
(* materializer: it raises on a template that breaks a structural          *)
(* invariant and on a marker step whose marker cannot be read.             *)
(***************************************************************************)
FromDictRaises(td, tmp, dirMarkers) ==
    \/ ~CoreAccepts(td)
    \/ \E i \in CropSteps(td) :
          ~Readable(td.preProcessors.procs[i].relativePath, tmp, dirMarkers)

\* the markers bound into the materialized template, step by step
BoundMarkers(td, tmp) ==
    [i \in CropSteps(td) |-> ReadMarker(td.preProcessors.procs[i].relativePath, tmp)]

(***************************************************************************)
(* _create_template_from_dict(template_data, config, marker_data,          *)
(* relative_dir): the result records whether the call raised, the caller's *)
(* template_data afterwards (the steps are rewritten in place), the        *)
(* transient marker file afterwards, and the markers the template holds.   *)
(***************************************************************************)
\* a variant that looks at relative_dir before it looks at marker_data
_create_template_from_dict_DirFirst(td, marker_data, relative_dir, tmp, dirMarkers) ==
    LET join == relative_dir # "none" /\ td.preProcessors.has
        persist == ~join /\ marker_data # "none" /\ td.preProcessors.has
        td1 == IF join THEN JoinRelativeDir(td)
               ELSE IF persist THEN RewriteToTemp(td)
               ELSE td
        tmp1 == IF persist /\ CropSteps(td) # {} THEN marker_data ELSE tmp
        raised == FromDictRaises(td1, tmp1, dirMarkers)
    IN  [raised |-> raised, template_data |-> td1, tmpMarker |-> tmp1,
         bound |-> IF raised THEN <<>> ELSE BoundMarkers(td1, tmp1)]

_create_template_from_dict(td, marker_data, relative_dir, tmp, dirMarkers) ==
    LET persist == marker_data # "none" /\ td.preProcessors.has
        td1 == IF persist THEN RewriteToTemp(td)
               ELSE IF relative_dir # "none" /\ td.preProcessors.has THEN JoinRelativeDir(td)
               ELSE td
        tmp1 == IF persist /\ CropSteps(td) # {} THEN marker_data ELSE tmp
        raised == FromDictRaises(td1, tmp1, dirMarkers)
    IN  [raised |-> raised, template_data |-> td1, tmpMarker |-> tmp1,
         bound |-> IF raised THEN <<>> ELSE BoundMarkers(td1, tmp1)]

(***************************************************************************)
(* Items and results.  An image is "ok", "corrupt" (cv2.imdecode returns   *)
(* None) or "raise" (a pipeline call raises on it).                        *)
(***************************************************************************)
ImageKinds == {"ok", "corrupt", "raise"}
FileNames == <<"a.jpg", "b.jpg", "c.jpg", "d.jpg">>

Result(status, file_name, message) ==
    [status |-> status, file_name |-> file_name, message |-> message]

\* api.utils.bytes_to_numpy: None for bytes that are no image
bytes_to_numpy(img) == IF img = "corrupt" THEN "None" ELSE img

\* every key the pipeline reads from the configuration is there
HasPipelineKeys(config) ==
    /\ IsMap(config)
    /\ \A k \in DOMAIN BuiltinDefaults.v :
          /\ Has(config, k)
          /\ IsMap(config.v[k])
          /\ \A j \in DOMAIN BuiltinDefaults.v[k].v : Has(config.v[k], j)

\* ImageInstanceOps(config), apply_preprocessors and read_omr_response: the
\* external pipeline raises on an image it cannot process and on a
\* configuration that lacks a key it reads
PipelineRaises(img, config) == img = "raise" \/ ~HasPipelineKeys(config)

\* raised: an exception leaves process_omr_image (none does: lines 48 and 119)
Outcome(result, td, defaults, tmp, call) ==
    [raised |-> FALSE, result |-> result, template_data |-> td, defaults |-> defaults,
     tmpMarker |-> tmp, call |-> call, tpl |-> NoTplCall]

\* a call of _create_template_from_dict: its arguments (template0: the
\* caller's template_data as passed in), the transient marker file before
\* (tmp0), and what the call t returned and left behind
TplRecord(td, marker_data, relative_dir, tmp, t) ==
    [made |-> TRUE, raised |-> t.raised, marker_data |-> marker_data,
     relative_dir |-> relative_dir, tmp0 |-> tmp, tmpMarker |-> t.tmpMarker,
     bound |-> t.bound, template0 |-> td, template_data |-> t.template_data]

CallRecord(config_data, auto_align, r, before) ==
    [called |-> TRUE, config_data |-> config_data, auto_align |-> auto_align,
     raised |-> r.raised, config |-> r.config, before |-> before]

(***************************************************************************)
(* process_omr_image(image_data, template_data, config_data, marker_data,  *)
(* file_name, ...): the result dictionary, with what the call leaves in    *)
(* the caller's template_data, in CONFIG_DEFAULTS and in the transient     *)
(* marker file.  Everything after the decode runs inside try/except.       *)
(***************************************************************************)
DecodeFailure(file_name) == Result("error", file_name, "Failed to decode image")

Caught(file_name, message) == Result("error", file_name, message)

\* a variant whose pipeline calls stand outside the try: an exception of
\* apply_preprocessors or read_omr_response leaves the call
ProcessDecoded_PipelineEscapes(img, file_name, td, config_data, marker_data, auto_align, defaults, tmp, call) ==
    LET c == _prepare_config(defaults, config_data, auto_align, TRUE)
        t == _create_template_from_dict(td, marker_data, "none", tmp, {})
        call1 == CallRecord(config_data, auto_align, c, defaults)
        tpl == TplRecord(td, marker_data, "none", tmp, t)
        built(result) == [Outcome(result, t.template_data, c.defaults, t.tmpMarker, call1)
                            EXCEPT !.tpl = tpl]
    IN  IF c.raised
        THEN Outcome(Caught(file_name, "config"), td, defaults, tmp, call1)
        ELSE IF t.raised THEN built(Caught(file_name, "template"))
        ELSE IF PipelineRaises(img, c.config)
        THEN [built(Caught(file_name, "pipeline")) EXCEPT !.raised = TRUE]
        ELSE built(Result("success", file_name, ""))

\* lines 59-117, reached with a decoded image
ProcessDecoded(img, file_name, td, config_data, marker_data, auto_align, defaults, tmp, call) ==
    LET c == _prepare_config(defaults, config_data, auto_align, TRUE)
        t == _create_template_from_dict(td, marker_data, "none", tmp, {})
        call1 == CallRecord(config_data, auto_align, c, defaults)
        tpl == TplRecord(td, marker_data, "none", tmp, t)
        built(result) == [Outcome(result, t.template_data, c.defaults, t.tmpMarker, call1)
                            EXCEPT !.tpl = tpl]
    IN  IF c.raised
        THEN Outcome(Caught(file_name, "config"), td, defaults, tmp, call1)
        ELSE IF t.raised THEN built(Caught(file_name, "template"))
        ELSE IF PipelineRaises(img, c.config) THEN built(Caught(file_name, "pipeline"))
        ELSE built(Result("success", file_name, ""))

\* a variant without the None check and outside the try: the failure to
\* decode leaves the call as an exception
process_omr_image_DecodeEscapes(img, file_name, td, config_data, marker_data, auto_align, defaults, tmp, call) ==
    IF bytes_to_numpy(img) = "None"
    THEN [Outcome(DecodeFailure(file_name), td, defaults, tmp, call) EXCEPT !.raised = TRUE]
    ELSE ProcessDecoded(img, file_name, td, config_data, marker_data, auto_align,
                        defaults, tmp, call)

process_omr_image(img, file_name, td, config_data, marker_data, auto_align, defaults, tmp, call) ==
    IF bytes_to_numpy(img) = "None"
    THEN Outcome(DecodeFailure(file_name), td, defaults, tmp, call)
    ELSE ProcessDecoded(img, file_name, td, config_data, marker_data, auto_align,
                        defaults, tmp, call)

(***************************************************************************)
(* Requests.  A process request arrives by upload (one image: the single   *)
(* path; several: process_omr_batch), as a directory path, or as a direct  *)
(* call of process_omr_batch with an images list and a file-names list.    *)
(***************************************************************************)
RECURSIVE ImageLists(_)
ImageLists(n) ==
    IF n = 0 THEN { <<>> }
    ELSE { Append(l, k) : l \in ImageLists(n - 1), k \in ImageKinds }

ImageListsUpTo(n) == UNION { ImageLists(m) : m \in 0..n }

NamesOf(n) == SubSeq(FileNames, 1, n)

Min(a, b) == IF a < b THEN a ELSE b

\* inputs/template.json, inputs/config.json: the defaults on disk
DefaultTemplate == T_marker
DefaultConfigFile == M([threshold_params |-> M([MIN_JUMP |-> S(7)])])

\* src.utils.parsing.open_config_with_defaults(path): the file's config over a
\* copy of the defaults
open_config_with_defaults(defaults, file_config) == always_merger(defaults, file_config)

\* api.utils.validate_config_json(config_data)
validate_config_json(config_data) == IsMap(config_data)

\* the configs a request carries in its config file or form field
RequestConfigs ==
    { M([outputs |-> M([show_image_level |-> S(2)])]),
      M([outputs |-> S(5)]),
      L(<<1>>),
      L(<<>>) }

TemplateChoices ==
    { [src |-> "request", t |-> t] : t \in ProcTemplates }
    \cup { [src |-> "default", t |-> DefaultTemplate],
           [src |-> "missing", t |-> DefaultTemplate] }

ConfigChoices ==
    { [src |-> "request", c |-> c] : c \in RequestConfigs }
    \cup { [src |-> "default", c |-> DefaultConfigFile], [src |-> "missing", c |-> None] }

MarkerChoices == {"upload", "default", "missing"}

\* the uploads looked at: every template and marker source with the config left
\* to the disk, and every config and auto_align flag with the two templates
\* that validate
UploadChoices ==
    { [tc |-> tc, cc |-> cc, msrc |-> msrc, auto_align |-> FALSE] :
          tc \in TemplateChoices,
          cc \in {c \in ConfigChoices : c.src # "request"},
          msrc \in MarkerChoices }
    \cup { [tc |-> [src |-> "request", t |-> t], cc |-> cc, msrc |-> msrc,
            auto_align |-> auto_align] :
              t \in {T_plain, T_marker}, cc \in ConfigChoices,
              msrc \in {"upload", "missing"}, auto_align \in BOOLEAN }

Bytes(x) == [t |-> "bytes", v |-> x]

\* api.utils.cleanup_temp_files(temp_files): an entry is removed only if it is
\* a str naming an existing file; tmp is the transient marker file
cleanup_temp_files(temp_files, tmp) ==
    IF \E e \in temp_files : e.t = "str" /\ e.v = TempMarkerPath.name THEN "none" ELSE tmp

Resp(code, status, kind, total, nsucc, nfail, res) ==
    [code |-> code, status |-> status, kind |-> kind, total |-> total,
     successful |-> nsucc, failed |-> nfail, results |-> res]

NoResp == Resp(0, "none", "none", 0, 0, 0, <<>>)
\* the handler of line 73: any exception becomes one 500 answer
TopLevelError == Resp(500, "error", "error", 0, 0, 0, <<>>)
\* an error dictionary returned by process_dir_for_api, answered with 200
ErrorDict == Resp(200, "error", "error", 0, 0, 0, <<>>)

\* the directory of a request that names none
NoDir == [exists |-> FALSE, hasTemplate |-> FALSE, template |-> T_plain,
          hasConfig |-> FALSE, images |-> <<>>, markers |-> {}]

\* content_length is 0 for a body whose size is of no concern (one within
\* MAX_CONTENT_LENGTH)
\* template0, defaults0 and tmp0 are the template as received and CONFIG_DEFAULTS
\* and the transient marker file as the request found them
Req(mode, via, images, names, t0, config_data, marker_data, auto_align, dirMarkers, bound, temp_files, src) ==
    [mode |-> mode, via |-> via, images |-> images, names |-> names, template0 |-> t0,
     config_data |-> config_data, marker_data |-> marker_data, auto_align |-> auto_align,
     dirMarkers |-> dirMarkers, bound |-> bound, temp_files |-> temp_files, src |-> src,
     defaults0 |-> CONFIG_DEFAULTS, tmp0 |-> tmpMarker, dir |-> NoDir,
     content_length |-> 0]

Src(tsrc, csrc, msrc) == [template |-> tsrc, config |-> csrc, marker |-> msrc]

NoReq == [mode |-> "none", via |-> "none", images |-> <<>>, names |-> <<>>,
          template0 |-> T_plain, config_data |-> None, marker_data |-> "none",
          auto_align |-> FALSE, dirMarkers |-> {}, bound |-> <<>>, temp_files |-> {},
          src |-> Src("request", "missing", "missing"),
          defaults0 |-> BuiltinDefaults, tmp0 |-> "none", dir |-> NoDir,
          content_length |-> 0]

Idle == pc = "idle"

\* a request ends before the item loop with the response r
EndEarly(request, r, call) ==
    /\ req' = request
    /\ resp' = r
    /\ pc' = "done"
    /\ template_data' = request.template0
    /\ results' = <<>> /\ successful' = 0 /\ failed' = 0 /\ decoded' = 0
    /\ cfgCall' = call

\* a request reaches its item loop
EnterLoop(request, td, call) ==
    /\ req' = request
    /\ resp' = NoResp
    /\ pc' = "loop"
    /\ template_data' = td
    /\ results' = <<>> /\ successful' = 0 /\ failed' = 0 /\ decoded' = 0
    /\ cfgCall' = call

(***************************************************************************)
(* process_omr with a multipart body, through _process_file_upload up to   *)
(* the call of process_omr_image or process_omr_batch.                     *)
(***************************************************************************)
ReceiveUpload ==
    /\ Idle
    /\ \E images \in ImageListsUpTo(MaxItems), u \in UploadChoices :
        LET tc == u.tc
            cc == u.cc
            msrc == u.msrc
            auto_align == u.auto_align
            td == tc.t
            validation == validate_template_json(td, FALSE)
            config_data == IF cc.src = "default"
                           THEN open_config_with_defaults(CONFIG_DEFAULTS, cc.c)
                           ELSE cc.c
            config_ok == IF Truthy(config_data) THEN validate_config_json(config_data)
                         ELSE TRUE
            marker_data == IF msrc = "upload" THEN "m1"
                           ELSE IF NeedsMarker(td) /\ msrc = "default" THEN "dm"
                           ELSE "none"
            temp_files == (IF msrc = "upload" THEN {Bytes("m1")} ELSE {})
                          \cup {Bytes(NamesOf(Len(images))[i]) : i \in 1..Len(images)}
            request == Req(IF Len(images) = 1 THEN "single" ELSE "batch", "http",
                           images, NamesOf(Len(images)), td, config_data, marker_data,
                           auto_align, {}, <<>>, temp_files, Src(tc.src, cc.src, msrc))
        IN  /\ IF \/ Len(images) = 0          \* 'image' not in request.files
                  \/ tc.src = "missing"       \* no template and no default template
                  \/ validation.kind = "raised"
               THEN /\ EndEarly(request, TopLevelError, NoCall)
                    \* `finally`: nothing was appended to temp_files yet
                    /\ tmpMarker' = cleanup_temp_files({}, tmpMarker)
               ELSE \* the values validate_template_json and validate_config_json
                    \* return (validation, config_ok) are not looked at
                    /\ EnterLoop(request, td, NoCall)
                    /\ tmpMarker' = tmpMarker
            /\ tplCall' = NoTplCall
            /\ UNCHANGED <<CONFIG_DEFAULTS, vreq, vresp, csv, workers, sel>>

(***************************************************************************)
(* process_omr with a multipart body larger than MAX_CONTENT_LENGTH.       *)
(* werkzeug raises RequestEntityTooLarge (an HTTPException, so an          *)
(* Exception) where the body is first parsed: at `request.files`, line 88, *)
(* inside the try of process_omr, whose `except Exception` answers 500.    *)
(* The 413 handler of the blueprint sees only exceptions that leave the    *)
(* view function.                                                          *)
(***************************************************************************)
\* app.config['MAX_CONTENT_LENGTH'], app.py line 30: 50 * 1024 * 1024
MAX_CONTENT_LENGTH == 52428800

\* werkzeug's test when the form data of a request is loaded
RequestTooLarge(content_length) == content_length > MAX_CONTENT_LENGTH

\* routes.py lines 287-293: the answer of the 413 handler
request_entity_too_large == Resp(413, "error", "error", 0, 0, 0, <<>>)

ReceiveOversized ==
    /\ Idle
    /\ \E images \in ImageListsUpTo(MaxItems) \ {<<>>} :
        LET request == [Req(IF Len(images) = 1 THEN "single" ELSE "batch", "http",
                            images, NamesOf(Len(images)), T_plain, None, "none", FALSE,
                            {}, <<>>, {}, Src("request", "missing", "missing"))
                           EXCEPT !.content_length = MAX_CONTENT_LENGTH + 1]
        IN  /\ RequestTooLarge(request.content_length)
            \* line 88 raises inside the try of line 50; line 73 catches
            /\ EndEarly(request, TopLevelError, NoCall)
            /\ tplCall' = NoTplCall
            /\ tmpMarker' = cleanup_temp_files({}, tmpMarker)
    /\ UNCHANGED <<CONFIG_DEFAULTS, vreq, vresp, csv, workers, sel>>

(***************************************************************************)
(* A direct call of process_omr_batch(images_data, file_names, ...).       *)
(***************************************************************************)
CallBatch ==
    /\ Idle
    /\ \E images \in ImageListsUpTo(MaxItems), n \in 0..MaxItems,
          td \in {T_plain, T_marker},
          config_data \in {None, L(<<1>>)}, marker_data \in {"none", "m1"} :
        /\ EnterLoop(Req("batch", "call", images, NamesOf(n), td, config_data,
                         marker_data, FALSE, {}, <<>>, {},
                         Src("request", "request", "upload")),
                     td, NoCall)
        /\ tplCall' = NoTplCall
        /\ UNCHANGED <<CONFIG_DEFAULTS, tmpMarker, vreq, vresp, csv, workers, sel>>

\* a variant that counts a failure only when nothing has succeeded yet
Tally_MissesFailure(nsucc, nfail, result) ==
    IF result.status = "success"
    THEN [successful |-> nsucc + 1, failed |-> nfail]
    ELSE [successful |-> nsucc, failed |-> IF nsucc = 0 THEN nfail + 1 ELSE nfail]

\* lines 171-174: the counters of process_omr_batch
Tally(nsucc, nfail, result) ==
    IF result.status = "success"
    THEN [successful |-> nsucc + 1, failed |-> nfail]
    ELSE [successful |-> nsucc, failed |-> nfail + 1]

\* one iteration of the loop of process_omr_batch (lines 157-174), or the one
\* call of process_omr_image of a single-image upload (lines 173-181)
ProcessItem ==
    /\ pc = "loop"
    /\ req.mode \in {"single", "batch"}
    /\ Len(results) < Min(Len(req.images), Len(req.names))
    /\ \E i \in {Len(results) + 1} :
       \E o \in {process_omr_image(req.images[i], req.names[i], template_data,
                                    req.config_data, req.marker_data, req.auto_align,
                                    CONFIG_DEFAULTS, tmpMarker, cfgCall)} :
       LET t == Tally(successful, failed, o.result)
       IN  /\ IF o.raised
              THEN \* the exception ends the call; process_omr answers at line 73
                   /\ pc' = "done"
                   /\ resp' = TopLevelError
                   /\ UNCHANGED <<results, successful, failed>>
              ELSE /\ results' = Append(results, o.result)
                   /\ IF req.mode = "single" THEN UNCHANGED <<successful, failed>>
                      ELSE successful' = t.successful /\ failed' = t.failed
                   /\ UNCHANGED <<pc, resp>>
           /\ template_data' = o.template_data
           /\ CONFIG_DEFAULTS' = o.defaults
           /\ tmpMarker' = o.tmpMarker
           /\ cfgCall' = o.call
           /\ tplCall' = IF o.tpl.made THEN o.tpl ELSE tplCall
           /\ decoded' = decoded + 1
    /\ UNCHANGED <<req, vreq, vresp, csv, workers, sel>>

\* a variant whose total counts the successes only
BatchResult_TotalOfSuccesses(total, nsucc, nfail, res) == Resp(200, "success", "batch", nsucc, nsucc, nfail, res)

\* lines 176-182, and for a request the rest of process_omr (lines 64-82)
BatchResult(total, nsucc, nfail, res) == Resp(200, "success", "batch", total, nsucc, nfail, res)

ReturnUpload ==
    /\ pc = "loop"
    /\ req.mode \in {"single", "batch"}
    /\ Len(results) = Min(Len(req.images), Len(req.names))
    /\ resp' = IF req.mode = "single"
               THEN Resp(200, results[1].status, "item", 0, 0, 0, results)
               ELSE BatchResult(Len(req.images), successful, failed, results)
    /\ tmpMarker' = IF req.via = "http" THEN cleanup_temp_files(req.temp_files, tmpMarker)
                    ELSE tmpMarker
    /\ pc' = "done"
    /\ UNCHANGED <<CONFIG_DEFAULTS, cfgCall, tplCall, req, template_data, results, successful,
                   failed, decoded, vreq, vresp, csv, workers, sel>>

(***************************************************************************)
(* Directory mode.  A directory holds (or not) template.json, config.json, *)
(* image files and marker files; files whose name contains 'marker' are    *)
(* no items.                                                               *)
(***************************************************************************)
MarkerFiles == {"omr_marker.jpg", "marker2.jpg"}

Dir(exists, hasTemplate, template, hasConfig, images, markers) ==
    [exists |-> exists, hasTemplate |-> hasTemplate, template |-> template,
     hasConfig |-> hasConfig, images |-> images, markers |-> markers]

Dirs ==
    { Dir(FALSE, FALSE, T_plain, FALSE, <<>>, {}) }
    \cup { Dir(TRUE, FALSE, T_plain, c, images, {}) :
              c \in BOOLEAN, images \in ImageListsUpTo(1) }
    \cup { Dir(TRUE, TRUE, t, c, images, m) :
              t \in ProcTemplates, c \in BOOLEAN, images \in ImageListsUpTo(MaxItems),
              m \in SUBSET MarkerFiles }

\* process_omr with a JSON body: _process_directory_path, then
\* process_dir_for_api up to its item loop (lines 298-380)
ReceiveDirectory ==
    /\ Idle
    /\ \E d \in Dirs, auto_align \in BOOLEAN :
        LET config_data == IF d.hasConfig
                           THEN open_config_with_defaults(CONFIG_DEFAULTS, DefaultConfigFile)
                           ELSE None
            marker_data == IF "omr_marker.jpg" \in d.markers THEN "dirm" ELSE "none"
            c == _prepare_config(CONFIG_DEFAULTS, config_data, auto_align, TRUE)
            t == _create_template_from_dict(d.template, marker_data, "d", tmpMarker,
                                            d.markers)
            call == CallRecord(config_data, auto_align, c, CONFIG_DEFAULTS)
            tpl == TplRecord(d.template, marker_data, "d", tmpMarker, t)
            request == [Req("dir", "http", d.images, NamesOf(Len(d.images)), d.template,
                            config_data, marker_data, auto_align, d.markers,
                            IF c.raised THEN <<>> ELSE t.bound, {},
                            Src("request", IF d.hasConfig THEN "default" ELSE "missing",
                                IF marker_data = "none" THEN "missing" ELSE "upload"))
                           EXCEPT !.dir = d]
        IN  IF ~d.exists                       \* routes.py line 215
            THEN /\ EndEarly(request, TopLevelError, NoCall)
                 /\ tplCall' = NoTplCall
                 /\ UNCHANGED <<CONFIG_DEFAULTS, tmpMarker>>
            ELSE IF ~d.hasTemplate \/ Len(d.images) = 0   \* lines 310, 338
            THEN /\ EndEarly(request, ErrorDict, NoCall)
                 /\ tplCall' = NoTplCall
                 /\ UNCHANGED <<CONFIG_DEFAULTS, tmpMarker>>
            ELSE IF c.raised                   \* line 366 raises
            THEN /\ EndEarly(request, TopLevelError, call)
                 /\ tplCall' = NoTplCall
                 /\ UNCHANGED <<CONFIG_DEFAULTS, tmpMarker>>
            ELSE IF t.raised                   \* line 369 raises
            THEN /\ EndEarly(request, TopLevelError, call)
                 /\ tplCall' = tpl
                 /\ CONFIG_DEFAULTS' = c.defaults
                 /\ tmpMarker' = t.tmpMarker
            ELSE /\ EnterLoop(request, t.template_data, call)
                 /\ tplCall' = tpl
                 /\ CONFIG_DEFAULTS' = c.defaults
                 /\ tmpMarker' = t.tmpMarker
    /\ UNCHANGED <<vreq, vresp, csv, workers, sel>>

\* one iteration of the loop of process_dir_for_api (lines 382-438); the
\* config object of the loop is the module-level CONFIG_DEFAULTS itself
DirItemResult(img, file_name, config) ==
    IF bytes_to_numpy(img) = "None" THEN DecodeFailure(file_name)
    ELSE IF PipelineRaises(img, config) THEN Caught(file_name, "pipeline")
    ELSE Result("success", file_name, "")

\* lines 393, 430 and 438: the counters of the directory loop
DirTally(nsucc, nfail, result) ==
    IF result.status = "success"
    THEN [successful |-> nsucc + 1, failed |-> nfail]
    ELSE [successful |-> nsucc, failed |-> nfail + 1]

ProcessDirItem ==
    /\ pc = "loop"
    /\ req.mode = "dir"
    /\ Len(results) < Min(Len(req.images), Len(req.names))
    /\ LET i == Len(results) + 1
           r == DirItemResult(req.images[i], req.names[i], CONFIG_DEFAULTS)
           t == DirTally(successful, failed, r)
       IN  /\ results' = Append(results, r)
           /\ successful' = t.successful /\ failed' = t.failed
           /\ decoded' = decoded + 1
    /\ UNCHANGED <<CONFIG_DEFAULTS, cfgCall, tplCall, tmpMarker, req, pc, template_data, resp,
                   vreq, vresp, csv, workers, sel>>

\* lines 440-446, then the rest of process_omr (lines 64-82)
ReturnDirectory ==
    /\ pc = "loop"
    /\ req.mode = "dir"
    /\ Len(results) = Min(Len(req.images), Len(req.names))
    /\ resp' = BatchResult(Len(req.images), successful, failed, results)
    /\ tmpMarker' = cleanup_temp_files(req.temp_files, tmpMarker)
    /\ pc' = "done"
    /\ UNCHANGED <<CONFIG_DEFAULTS, cfgCall, tplCall, req, template_data, results, successful,
                   failed, decoded, vreq, vresp, csv, workers, sel>>

\* the response is sent and the handler's locals are gone; CONFIG_DEFAULTS and
\* the files under /tmp stay
RequestEnds ==
    /\ pc = "done"
    /\ pc' = "idle"
    /\ req' = NoReq /\ resp' = NoResp /\ template_data' = T_plain
    /\ results' = <<>> /\ successful' = 0 /\ failed' = 0 /\ decoded' = 0
    /\ cfgCall' = NoCall /\ tplCall' = NoTplCall
    /\ UNCHANGED <<CONFIG_DEFAULTS, tmpMarker, vreq, vresp, csv, workers, sel>>

Init ==
    /\ InitCommon
    /\ workers = NoWorkers
    /\ sel = NoSel
    /\ vreq = NoVReq /\ vresp = NoVResp
    /\ req = NoReq /\ pc = "idle" /\ template_data = T_plain /\ results = <<>>
    /\ successful = 0 /\ failed = 0 /\ decoded = 0 /\ resp = NoResp

Next ==
    \/ ReceiveUpload
    \/ ReceiveOversized
    \/ CallBatch
    \/ ProcessItem
    \/ ReturnUpload
    \/ ReceiveDirectory
    \/ ProcessDirItem
    \/ ReturnDirectory
    \/ RequestEnds

Spec == Init /\ [][Next]_vars

\* The loops are plain sequential code: an iteration that can run does run,
\* and a loop that is through returns.
\* One batch from its start to its BatchResult: a direct call of
\* process_omr_batch, or a directory request.
NextBatch ==
    \/ CallBatch
    \/ ProcessItem
    \/ ReturnUpload
    \/ ReceiveDirectory
    \/ ProcessDirItem
    \/ ReturnDirectory

SpecBatch ==
    /\ Init /\ [][NextBatch]_vars
    /\ WF_vars(ProcessItem) /\ WF_vars(ReturnUpload)
    /\ WF_vars(ProcessDirItem) /\ WF_vars(ReturnDirectory)

(***************************************************************************)
(* Claims about batches.                                                   *)
(***************************************************************************)
\* a BatchResult has been returned
BatchReturned == pc = "done" /\ resp.kind = "batch"

\* the batch is a sequence of items: a file name for every image
ItemBatch == Len(req.images) = Len(req.names)

Errors(res) == {i \in 1..Len(res) : res[i].status = "error"}

\* C1: every BatchResult returned by process_omr_batch or by the item loop of
\* process_dir_for_api has successful + failed = total, for every images list
\* and file-names list the caller passes.
C1_CountsAddUp ==
    BatchReturned => resp.successful + resp.failed = resp.total

\* C2: a batch of N items of which k fail returns total = N, successful = N-k,
\* failed = k and N results, the i-th carrying the file name of the i-th item.
C2_CountsAndOrder ==
    (BatchReturned /\ ItemBatch) =>
        LET N == Len(req.images)
            k == Cardinality(Errors(resp.results))
        IN  /\ resp.total = N
            /\ resp.successful = N - k
            /\ resp.failed = k
            /\ Len(resp.results) = N
            /\ \A i \in 1..N : resp.results[i].file_name = req.names[i]

\* a batch of two items, the first failed and the second succeeded
C2_Witness ==
    /\ BatchReturned /\ ItemBatch
    /\ Len(req.images) = 2
    /\ resp.results[1].status = "error"
    /\ resp.results[2].status = "success"

RemoveAt(seq, j) == [i \in 1..(Len(seq) - 1) |-> IF i < j THEN seq[i] ELSE seq[i + 1]]

\* the results process_omr_batch builds for the items, started with the
\* template td, CONFIG_DEFAULTS = defaults and the transient marker file tmp
RECURSIVE BatchResults(_, _, _, _, _, _, _, _)
BatchResults(images, names, td, config_data, marker_data, auto_align, defaults, tmp) ==
    IF images = <<>> THEN <<>>
    ELSE LET o == process_omr_image(Head(images), Head(names), td, config_data,
                                    marker_data, auto_align, defaults, tmp, NoCall)
         IN  <<o.result>> \o BatchResults(Tail(images), Tail(names), o.template_data,
                                          config_data, marker_data, auto_align,
                                          o.defaults, o.tmpMarker)

\* the results of the request's batch with item j left out
WithoutItem(j) ==
    IF req.mode = "dir"
    THEN [i \in 1..(Len(req.images) - 1) |->
             DirItemResult(RemoveAt(req.images, j)[i], RemoveAt(req.names, j)[i],
                           CONFIG_DEFAULTS)]
    ELSE BatchResults(RemoveAt(req.images, j), RemoveAt(req.names, j), req.template0,
                      req.config_data, req.marker_data, req.auto_align,
                      req.defaults0, req.tmp0)

Undecodable(j) == req.images[j] \in {"corrupt", "raise"}

\* C3: an image that cannot be decoded, or on which the pipeline raises, gives
\* one error result with its file name and a message; the failure does not end
\* the batch; the other items' results are what they are without that item, so
\* that among N-1 valid images there are N-1 successes and one error.
C3_FaultIsolation ==
    /\ (pc = "done" /\ decoded > 0) => resp.kind \in {"batch", "item"}
    /\ (BatchReturned /\ ItemBatch) =>
          \A j \in 1..Len(req.images) :
              Undecodable(j) =>
                  /\ Len(resp.results) = Len(req.images)
                  /\ resp.results[j].status = "error"
                  /\ resp.results[j].file_name = req.names[j]
                  /\ resp.results[j].message # ""
                  /\ RemoveAt(resp.results, j) = WithoutItem(j)
                  /\ (\A i \in 1..(Len(req.images) - 1) :
                          WithoutItem(j)[i].status = "success")
                      => /\ Cardinality(Errors(resp.results)) = 1
                         /\ resp.successful = Len(req.images) - 1
                         /\ resp.failed = 1

\* a batch of one corrupt image and one valid image, the valid one processed
\* after the corrupt one
C3_Witness ==
    /\ BatchReturned /\ ItemBatch
    /\ Len(req.images) = 2
    /\ req.images[1] = "corrupt"
    /\ resp.results[1].status = "error"
    /\ resp.results[2].status = "success"

(***************************************************************************)
(* Claims about the shared context of an upload or directory request.      *)
(***************************************************************************)
Upload == req.via = "http" /\ req.mode \in {"single", "batch"}

\* no item was touched and the answer, once given, is one top-level error
AbortedBeforeItems ==
    /\ results = <<>>
    /\ decoded = 0
    /\ pc = "done" => resp.kind = "error"

\* validate_template_json reports the request's template invalid
ReportedInvalid(t) ==
    LET v == validate_template_json(t, FALSE) IN v.kind = "bool" /\ ~v.valid

\* C4: in upload mode a template that fails validation aborts the request
\* before any item is processed: process_omr_image is never invoked and the
\* response is a single top-level error.
C4_InvalidTemplateAborts ==
    (Upload /\ ReportedInvalid(req.template0)) => AbortedBeforeItems

\* the marker step of the request's template finds no marker: none uploaded
\* or in the directory, none at the step's relative path, no default asset
NoMarkerAvailable ==
    /\ req.mode # "none"
    /\ NeedsMarker(req.template0)
    /\ req.marker_data = "none"
    /\ \A i \in CropSteps(req.template0) :
          req.template0.preProcessors.procs[i].relativePath.name \notin req.dirMarkers

\* C5: when the template has a marker step and no marker is available, the
\* request fails with one marker-resolution error before any image is decoded
\* or processed, in upload mode and in directory mode.
C5_NoMarkerFailsFirst ==
    (req.via = "http" /\ NoMarkerAvailable) => AbortedBeforeItems

\* C6: a request's config that is no mapping is rejected as a top-level error
\* before any item is processed, and every mapping-valued config is accepted.
C6_ConfigRejectedIffNotMapping ==
    (Upload /\ req.src.config = "request") =>
        /\ ~IsMap(req.config_data) => AbortedBeforeItems
        /\ IsMap(req.config_data) =>
              /\ cfgCall.called => ~cfgCall.raised
              /\ \A i \in 1..Len(results) : results[i].message # "config"

(***************************************************************************)
(* Claims about marker resolution and the transient marker file.           *)
(***************************************************************************)
\* a template was materialized by the latest _create_template_from_dict call
Materialized == tplCall.made /\ ~tplCall.raised

\* the marker that step i of the template should read: the bytes supplied
\* with the request (uploaded, or the directory's omr_marker.jpg), else the
\* file the step names in the request's directory, else the default asset
ExpectedMarker(i) ==
    IF req.src.marker = "upload" /\ tplCall.marker_data # "none" THEN tplCall.marker_data
    ELSE IF tplCall.relative_dir # "none"
    THEN tplCall.template0.preProcessors.procs[i].relativePath.name
    ELSE "dm"

\* C12: every step that requires a marker is bound to the marker of the
\* highest source there is (supplied bytes, then the step's relative path in
\* the base directory, then the default asset); when no step requires a
\* marker, no marker is persisted and no step's path is rewritten.
C12_MarkerPrecedence ==
    Materialized =>
        /\ DOMAIN tplCall.bound = CropSteps(tplCall.template0)
        /\ \A i \in CropSteps(tplCall.template0) : tplCall.bound[i] = ExpectedMarker(i)
        /\ CropSteps(tplCall.template0) = {}
              => /\ tplCall.tmpMarker = tplCall.tmp0
                 /\ tplCall.template_data = tplCall.template0

\* a directory holding marker2.jpg and omr_marker.jpg, and a template whose
\* step names marker2.jpg: the directory's omr_marker.jpg bytes are bound
C12_Witness ==
    /\ Materialized
    /\ req.mode = "dir"
    /\ req.dirMarkers = MarkerFiles
    /\ tplCall.template0 = T_marker2
    /\ tplCall.bound[2] = "dirm"

\* C13: every transient marker file persisted during marker resolution is
\* deleted by the time the request that created it has returned, on success
\* and on failure: no persisted marker file remains after completed requests.
C13_NoMarkerFileRemains ==
    pc \in {"done", "idle"} => tmpMarker = "none"

(***************************************************************************)
(* Claims about the life of a batch.                                       *)
(***************************************************************************)
\* process_omr_batch, or the item loop of process_dir_for_api, has started on
\* a batch of items
Running == pc = "loop" /\ req.mode \in {"batch", "dir"} /\ ItemBatch

\* it has returned a BatchResult with one result for every item
Completed == BatchReturned /\ Len(resp.results) = Len(req.images)

\* C14: a batch that has started always ends by returning a BatchResult with
\* one recorded result for every input item, whatever fails on its items.
C14_BatchAlwaysCompletes == Running ~> Completed

\* a batch of two items has completed although the pipeline raised on its
\* first item and the second could not be decoded
C14_Witness ==
    /\ Completed
    /\ req.images = <<"raise", "corrupt">>
    /\ Len(resp.results) = 2

(***************************************************************************)
(* Claims about directory requests.                                        *)
(***************************************************************************)
\* a directory request has been answered
DirAnswered == req.mode = "dir" /\ pc = "done"

\* one of the three preconditions fails: no directory, no template file, no
\* image file left once the marker files are excluded
PreconditionFails == ~req.dir.exists \/ ~req.dir.hasTemplate \/ req.dir.images = <<>>

\* the answer is one top-level error and no item was processed
SingleErrorNoItem == resp.kind = "error" /\ results = <<>> /\ decoded = 0

\* every image file was processed exactly once and total is their number
EveryFileOnce ==
    /\ BatchReturned
    /\ resp.total = Len(req.dir.images)
    /\ decoded = Len(req.dir.images)
    /\ Len(resp.results) = Len(req.dir.images)
    /\ \A i \in 1..Len(req.dir.images) : resp.results[i].file_name = req.names[i]

\* config resolution and template materialization went through
ContextResolved == cfgCall.called /\ ~cfgCall.raised /\ Materialized

\* C15 as stated: a directory request gets a single top-level error and
\* processes no item when the directory, the template file or every image
\* file is missing; otherwise every image file is processed exactly once and
\* total is the number of those files.
C15_DirectoryPreconditions ==
    DirAnswered =>
        IF PreconditionFails THEN SingleErrorNoItem ELSE EveryFileOnce

\* C15, amended: as above, where "otherwise" also requires that the config
\* and the template of the directory could be resolved; if they could not,
\* the request gets a single top-level error and processes no item; an
\* absent config file makes no difference.
C15_DirectoryPreconditionsResolved ==
    DirAnswered =>
        IF PreconditionFails THEN SingleErrorNoItem
        ELSE IF ContextResolved THEN EveryFileOnce
        ELSE SingleErrorNoItem

\* a directory without a config file, with two image files and its marker
\* file, has been processed
C15_Witness ==
    /\ DirAnswered
    /\ ~req.dir.hasConfig
    /\ Len(req.dir.images) = 2
    /\ req.dir.markers # {}
    /\ EveryFileOnce

(***************************************************************************)
(* The source selection of an upload: _process_file_upload from its first  *)
(* line to the point where it hands the images to process_omr_image or     *)
(* process_omr_batch (lines 88-161).  A part of the request, or a file of  *)
(* the inputs folder, is present with a value or absent.                   *)
(***************************************************************************)
\* v0 fills the place of the value of an absent part; it is never looked at
Absent(v0) == [present |-> FALSE, v |-> v0]
Present(v) == [present |-> TRUE, v |-> v]

\* the uploads looked at: the templates, configs and markers a request can
\* carry as a file or as a form field
UploadRequests ==
    [n : 0..MaxItems, image_ok : BOOLEAN,
     template_file : {Absent(T_plain), Present(T_plain), Present(T_marker2)},
     form_template : {Absent(T_plain), Present(T_plain), Present(T_marker2)},
     config_file : {Absent(None), Present(M([outputs |-> M([show_image_level |-> S(2)])]))},
     form_config : {Absent(None), Present(M([extra |-> L(<<1>>)]))},
     marker_file : {Absent("none"), Present("m1")}]

\* the inputs folder: template.json, config.json, omr_marker.jpg
Disks ==
    [template : {Absent(T_plain), Present(DefaultTemplate)},
     config : {Absent(None), Present(DefaultConfigFile)},
     marker : {Absent("none"), Present("dm")}]

\* a variant that looks at the form field before it looks at the file
SelectTemplate_FormFirst(request, disk) ==
    IF request.form_template.present
    THEN [raised |-> FALSE, src |-> "form", template_data |-> request.form_template.v]
    ELSE IF request.template_file.present
    THEN [raised |-> FALSE, src |-> "file", template_data |-> request.template_file.v]
    ELSE IF disk.template.present
    THEN [raised |-> FALSE, src |-> "default", template_data |-> disk.template.v]
    ELSE [raised |-> TRUE, src |-> "none", template_data |-> T_plain]

\* lines 103-118: the template file, else the form field, else the default
\* template, else ValueError
SelectTemplate(request, disk) ==
    IF request.template_file.present
    THEN [raised |-> FALSE, src |-> "file", template_data |-> request.template_file.v]
    ELSE IF request.form_template.present
    THEN [raised |-> FALSE, src |-> "form", template_data |-> request.form_template.v]
    ELSE IF disk.template.present
    THEN [raised |-> FALSE, src |-> "default", template_data |-> disk.template.v]
    ELSE [raised |-> TRUE, src |-> "none", template_data |-> T_plain]

\* lines 124-138: the config file, else the form field, else the default
\* config read over the defaults, else None
SelectConfig(request, disk, defaults) ==
    IF request.config_file.present
    THEN [src |-> "file", config_data |-> request.config_file.v]
    ELSE IF request.form_config.present
    THEN [src |-> "form", config_data |-> request.form_config.v]
    ELSE IF disk.config.present
    THEN [src |-> "default",
          config_data |-> open_config_with_defaults(defaults, disk.config.v)]
    ELSE [src |-> "none", config_data |-> None]

\* lines 144-161: the uploaded marker, else the default marker if the
\* template has a CropOnMarkers step and the file exists, else None
SelectMarker(request, disk, td) ==
    IF request.marker_file.present
    THEN [src |-> "file", marker_data |-> request.marker_file.v, read_default |-> FALSE]
    ELSE IF NeedsMarker(td) /\ disk.marker.present
    THEN [src |-> "default", marker_data |-> disk.marker.v, read_default |-> TRUE]
    ELSE [src |-> "none", marker_data |-> "none", read_default |-> FALSE]

\* the exception leaves _process_file_upload: no item is handed over
SelectionFails ==
    [raised |-> TRUE, template_src |-> "none", template_data |-> T_plain,
     config_src |-> "none", config_data |-> None, marker_src |-> "none",
     marker_data |-> "none", read_default |-> FALSE, handed |-> 0]

\* lines 88-161 in their order; handed: the number of images passed on to
\* process_omr_image / process_omr_batch
SelectSources(request, disk, defaults) ==
    IF request.n = 0 THEN SelectionFails            \* line 89
    ELSE IF ~request.image_ok THEN SelectionFails   \* line 100
    ELSE LET t == SelectTemplate(request, disk)
         IN  IF t.raised THEN SelectionFails        \* line 118
             ELSE IF validate_template_json(t.template_data, FALSE).kind = "raised"
             THEN SelectionFails                    \* line 121
             ELSE LET c == SelectConfig(request, disk, defaults)
                      \* line 141: the value validate_config_json returns is dropped
                      m == SelectMarker(request, disk, t.template_data)
                  IN  [raised |-> FALSE, template_src |-> t.src,
                       template_data |-> t.template_data, config_src |-> c.src,
                       config_data |-> c.config_data, marker_src |-> m.src,
                       marker_data |-> m.marker_data, read_default |-> m.read_default,
                       handed |-> request.n]

\* the upload that arrives, with the inputs folder as it finds it
InitSel ==
    /\ InitCommon
    /\ workers = NoWorkers
    /\ \E request \in UploadRequests, disk \in Disks :
          sel = [called |-> FALSE, request |-> request, disk |-> disk,
                 outcome |-> SelectionFails]
    /\ vreq = NoVReq /\ vresp = NoVResp
    /\ req = NoReq /\ pc = "idle" /\ template_data = T_plain /\ results = <<>>
    /\ successful = 0 /\ failed = 0 /\ decoded = 0 /\ resp = NoResp

ReceiveUploadSources ==
    /\ ~sel.called
    /\ sel' = [sel EXCEPT !.called = TRUE,
                          !.outcome = SelectSources(sel.request, sel.disk,
                                                    CONFIG_DEFAULTS)]
    /\ UNCHANGED <<CONFIG_DEFAULTS, cfgCall, tplCall, csv, workers, vreq, vresp,
                   tmpMarker, req, pc, template_data, results, successful, failed,
                   decoded, resp>>

NextSel == ReceiveUploadSources

SpecSel == InitSel /\ [][NextSel]_vars

(***************************************************************************)
(* The CSV export: create_csv_response(result_data).  A dict is a function *)
(* from its keys; a DataFrame is its set of columns and its rows, a cell   *)
(* without a value being NaN.                                              *)
(***************************************************************************)
\* question labels of the template and the marks read for them
Labels == {"q1", "q2"}
Marks == {"A", "B"}

\* the `response` mappings a sheet can decode to: label -> mark
Responses == UNION { [ls -> Marks] : ls \in SUBSET Labels }

\* api_adapter.py lines 90-103: the dict of a processed item
SuccessDict(file_name, response) ==
    [status |-> "success", file_name |-> file_name, response |-> response,
     raw_response |-> response, metadata |-> "metadata"]

\* api_adapter.py lines 119-124: the dict of a failed item
FailureDict(file_name) ==
    [status |-> "error", file_name |-> file_name, message |-> "message"]

ItemDicts(file_name) ==
    { SuccessDict(file_name, r) : r \in Responses } \cup { FailureDict(file_name) }

\* the `results` lists of n items, the i-th named FileNames[i]
ResultLists(n) ==
    { rs \in [1..n -> UNION { ItemDicts(FileNames[i]) : i \in 1..n }] :
        \A i \in 1..n : rs[i].file_name = FileNames[i] }

\* api_adapter.py lines 176-182 and routes.py line 66: the result of a batch
BatchDict(rs) ==
    [status |-> "success", total |-> Len(rs),
     successful |-> Cardinality({ i \in DOMAIN rs : rs[i].status = "success" }),
     failed |-> Cardinality({ i \in DOMAIN rs : rs[i].status # "success" }),
     results |-> rs, processing_time |-> 0]

\* routes.py lines 173-181 and 66: the result of a single image
SingleDict(item) ==
    [k \in DOMAIN item \cup {"processing_time"} |->
        IF k = "processing_time" THEN 0 ELSE item[k]]

ResultData ==
    { BatchDict(rs) : rs \in UNION { ResultLists(n) : n \in 0..MaxItems } }
        \cup { SingleDict(item) : item \in ItemDicts(FileNames[1]) }

\* dict.get(k, default)
Get(d, k, default) == IF k \in DOMAIN d THEN d[k] ELSE default

\* pd.DataFrame(list of dicts): the columns are the keys of the dicts
DataFrame(records) ==
    LET columns == UNION { DOMAIN records[i] : i \in DOMAIN records }
    IN  [columns |-> columns,
         rows |-> [i \in DOMAIN records |->
                     [c \in columns |-> Get(records[i], c, "NaN")]]]

\* utils.py lines 234-244 (to_csv writes the frame as it is: lines 247-259)
create_csv_response(result_data) ==
    IF "results" \in DOMAIN result_data
    THEN DataFrame(result_data.results)
    ELSE LET response == Get(result_data, "response", <<>>)
             fixed == [file_name |-> Get(result_data, "file_name", "unknown"),
                       status |-> Get(result_data, "status", "success")]
         IN  DataFrame(<< [k \in DOMAIN fixed \cup DOMAIN response |->
                             IF k \in DOMAIN response THEN response[k]
                             ELSE fixed[k]] >>)

\* process_omr with format=csv, lines 69-70
ExportCsv ==
    /\ \E result_data \in ResultData :
        csv' = [called |-> TRUE, result_data |-> result_data,
                table |-> create_csv_response(result_data)]
    /\ UNCHANGED <<CONFIG_DEFAULTS, cfgCall, tplCall, workers, sel, vreq, vresp, tmpMarker,
                   req, pc, template_data, results, successful, failed, decoded, resp>>

NextCsv == ExportCsv

SpecCsv == Init /\ [][NextCsv]_vars

(***************************************************************************)
(* Claims about the response formats.                                      *)
(***************************************************************************)
\* C16: a process request whose payload exceeds the 50 MiB bound is answered
\* with the payload-too-large outcome (HTTP 413), never with the generic 500
\* and never with a per-item failure, and no item is processed.
C16_OversizedGets413 ==
    (pc = "done" /\ RequestTooLarge(req.content_length)) =>
        /\ resp = request_entity_too_large
        /\ results = <<>>
        /\ decoded = 0

\* the items of a result: the entries of `results`, or the result itself
ItemsOf(result_data) ==
    IF "results" \in DOMAIN result_data THEN result_data.results
    ELSE <<result_data>>

\* the question labels answered in some item of the result
AnswerLabels(result_data) ==
    UNION { DOMAIN Get(ItemsOf(result_data)[i], "response", <<>>) :
              i \in DOMAIN ItemsOf(result_data) }

\* C17: the CSV export of a process result has one row per item, and its
\* columns are the status plus one column per decoded answer (question
\* label), for a single result and for a batch alike, failed items included.
\* (The file_name column that names the row is let through.)
C17_CsvColumns ==
    csv.called =>
        /\ Len(csv.table.rows) = Len(ItemsOf(csv.result_data))
        /\ csv.table.columns \ {"file_name"} =
              {"status"} \cup AnswerLabels(csv.result_data)

(***************************************************************************)
(* Two uploads served at once (the server runs one thread per request),    *)
(* each with a CropOnMarkers template and its own marker file.  Per item   *)
(* a request runs _create_template_from_dict, in which the write of the    *)
(* marker file (line 257) and the read of it by Template.from_dict (line   *)
(* 274) are separate steps, then the preprocessing with the template.      *)
(* /tmp/omr_marker_temp.jpg is one file for all requests.                  *)
(***************************************************************************)
Workers == {"A", "B"}

\* the marker bytes each request uploads
MarkerOf(w) == IF w = "A" THEN "m1" ELSE "m2"

Worker(w, n) ==
    [pc |-> "persist", marker_data |-> MarkerOf(w), n |-> n, item |-> 1,
     template_data |-> T_marker, raised |-> FALSE, bound |-> <<>>]

\* lines 252-261: the marker is written and the step's path rewritten
PersistMarker(w) ==
    /\ workers[w].pc = "persist"
    /\ tmpMarker' = workers[w].marker_data
    /\ workers' = [workers EXCEPT ![w].pc = "build",
                                  ![w].template_data = RewriteToTemp(@)]
    /\ UNCHANGED <<CONFIG_DEFAULTS, cfgCall, tplCall, csv, sel, vreq, vresp, req, pc,
                   template_data, results, successful, failed, decoded, resp>>

\* line 274: Template.from_dict reads the marker at the step's path
BuildTemplate(w) ==
    /\ workers[w].pc = "build"
    /\ LET td == workers[w].template_data
           raised == FromDictRaises(td, tmpMarker, {})
       IN  workers' = [workers EXCEPT ![w].pc = "preprocess",
                                     ![w].raised = raised,
                                     ![w].bound = IF raised THEN <<>>
                                                  ELSE BoundMarkers(td, tmpMarker)]
    /\ UNCHANGED <<CONFIG_DEFAULTS, cfgCall, tplCall, csv, sel, vreq, vresp, tmpMarker, req,
                   pc, template_data, results, successful, failed, decoded, resp>>

\* process_omr_image lines 75-124: the item is preprocessed with the
\* template's markers and its result returned; the next item follows
Preprocess(w) ==
    /\ workers[w].pc = "preprocess"
    /\ workers' = [workers EXCEPT ![w].item = @ + 1,
                                  ![w].pc = IF workers[w].item < workers[w].n
                                            THEN "persist" ELSE "done"]
    /\ UNCHANGED <<CONFIG_DEFAULTS, cfgCall, tplCall, csv, sel, vreq, vresp, tmpMarker, req,
                   pc, template_data, results, successful, failed, decoded, resp>>

InitConc ==
    /\ InitCommon
    /\ sel = NoSel
    /\ \E nA \in 1..MaxItems, nB \in 1..MaxItems :
          workers = [w \in Workers |-> Worker(w, IF w = "A" THEN nA ELSE nB)]
    /\ vreq = NoVReq /\ vresp = NoVResp
    /\ req = NoReq /\ pc = "idle" /\ template_data = T_plain /\ results = <<>>
    /\ successful = 0 /\ failed = 0 /\ decoded = 0 /\ resp = NoResp

NextConc ==
    \E w \in Workers :
        \/ PersistMarker(w)
        \/ BuildTemplate(w)
        \/ Preprocess(w)

SpecConc == InitConc /\ [][NextConc]_vars

(***************************************************************************)
(* Claims about shared state.                                              *)
(***************************************************************************)
\* C18: processing an item leaves the batch's shared inputs unchanged: after
\* process_omr_image has returned, with success or error, the caller's raw
\* template (every preProcessors step's options and relativePath included)
\* and the caller's raw config equal what they were before the call.
C18_SharedInputsUnchanged ==
    (req.mode \in {"single", "batch"} /\ decoded > 0) =>
        /\ template_data = req.template0
        /\ cfgCall.called =>
              ConfigDataAfter(cfgCall.config_data, cfgCall.auto_align, TRUE)
                  = cfgCall.config_data

\* C19: a materialized template belongs to one batch only: when two requests
\* that supply different marker bytes run concurrently, under any
\* interleaving of their steps, each request's template holds the marker
\* that this request supplied, never the marker of the other request.
C19_OwnMarkerOnly ==
    \A w \in DOMAIN workers :
        \A i \in DOMAIN workers[w].bound :
            workers[w].bound[i] = workers[w].marker_data

\* C20: config resolution is independent of history: the snapshot
\* _prepare_config returns depends only on the request's config and flags
\* (it is what a call on the built-in defaults returns), and the built-in
\* default configuration is the same before and after every call, so that a
\* snapshot already returned is not changed by a later call.
C20_HistoryIndependent ==
    cfgCall.called =>
        /\ CONFIG_DEFAULTS = cfgCall.before
        /\ cfgCall.before = BuiltinDefaults
        /\ ~cfgCall.raised =>
              cfgCall.config = _prepare_config(BuiltinDefaults, cfgCall.config_data,
                                               cfgCall.auto_align, TRUE).config

(***************************************************************************)
(* Claims about the sources of an upload.                                  *)
(***************************************************************************)
\* the request has images with allowed names: the selection is reached
Selecting == sel.called /\ sel.request.n > 0 /\ sel.request.image_ok

\* the first of the three that is there
FirstPresent(file, form, default) ==
    IF file.present THEN file ELSE IF form.present THEN form ELSE default

TemplateOf(request, disk) ==
    FirstPresent(request.template_file, request.form_template, disk.template)

ConfigOf(request, disk) ==
    FirstPresent(request.config_file, request.form_config,
                 IF disk.config.present
                 THEN Present(open_config_with_defaults(CONFIG_DEFAULTS, disk.config.v))
                 ELSE Present(None))

\* C21: upload-mode source selection.  The template used is the uploaded
\* file if present, else the form field, else the default on disk, and the
\* request fails before any item is processed when none of them exists.  The
\* config is chosen the same way and its absence everywhere is not an error.
\* The default marker is read only when no marker was uploaded and the
\* template has a CropOnMarkers step, and its absence is not an error for a
\* template without such a step.
C21_SourceSelection ==
    Selecting =>
        LET request == sel.request
            disk == sel.disk
            o == sel.outcome
            t == TemplateOf(request, disk)
        IN  /\ ~t.present => o.raised /\ o.handed = 0
            /\ ~o.raised =>
                  /\ t.present /\ o.template_data = t.v
                  /\ o.config_data = ConfigOf(request, disk).v
                  /\ o.handed = request.n
            /\ o.read_default =>
                  /\ ~request.marker_file.present
                  /\ NeedsMarker(o.template_data)
                  /\ o.marker_data = disk.marker.v
            /\ request.marker_file.present => o.raised \/ o.marker_data = request.marker_file.v
            \* nothing but the template decides whether the selection fails
            /\ (t.present /\ CoreAccepts(t.v)) => ~o.raised

\* the form field is used for want of a file, no config is anywhere, and the
\* default marker is read for the CropOnMarkers step of the template
C21_Witness ==
    /\ Selecting
    /\ ~sel.request.template_file.present
    /\ sel.request.form_template.present
    /\ sel.disk.template.present
    /\ ~sel.outcome.raised
    /\ sel.outcome.template_data = sel.request.form_template.v
    /\ sel.outcome.config_data = None
    /\ sel.outcome.read_default

====
